---------------------------- MODULE Spec2Model ----------------------------
(***************************************************************************)
(* Airport lookup and search engine                                        *)
(* (packages/shared-sdk/python/aviation/airports.py, class                 *)
(* AirportDatabase).                                                       *)
(*                                                                         *)
(* Representation                                                          *)
(*   - a Python str is a sequence of one-character strings, so that        *)
(*     strip/split/upper/startswith/"in" are computed, not assumed;        *)
(*   - a raw JSON airport is a function from the keys that are present     *)
(*     (and not null) to their values; dict.get of any other key is None;  *)
(*   - an Optional[float] is a set with at most one element;               *)
(*   - a distance is an integer number of micro nautical miles;            *)
(*   - a text score is an exact fraction [n, d].                           *)
(***************************************************************************)
EXTENDS Integers, Sequences, FiniteSets, TLC

-----------------------------------------------------------------------------
(* Characters and Python str methods                                       *)

Lowers == <<"a","b","c","d","e","f","g","h","i","j","k","l","m",
            "n","o","p","q","r","s","t","u","v","w","x","y","z">>

Uppers == <<"A","B","C","D","E","F","G","H","I","J","K","L","M",
            "N","O","P","Q","R","S","T","U","V","W","X","Y","Z">>

Digits == <<"0","1","2","3","4","5","6","7","8","9">>

\* Code-point order of the characters that occur in the model.
Ascii == <<" ", ",", "-", ".">> \o Digits \o Uppers \o Lowers

Range(s) == {s[i] : i \in DOMAIN s}

OrdOf == [c \in Range(Ascii) |-> CHOOSE i \in DOMAIN Ascii : Ascii[i] = c]

Ord(c) == OrdOf[c]

IsSpace(c) == c = " "

DigitChars == Range(Digits)

IsDigit(c) == c \in DigitChars

\* The characters str.upper() and str.lower() change, with their images.
UpperOf ==
    [c \in Range(Lowers) |-> Uppers[CHOOSE i \in DOMAIN Lowers : Lowers[i] = c]]

LowerOf ==
    [c \in Range(Uppers) |-> Lowers[CHOOSE i \in DOMAIN Uppers : Uppers[i] = c]]

UpperChar(c) == IF c \in DOMAIN UpperOf THEN UpperOf[c] ELSE c

LowerChar(c) == IF c \in DOMAIN LowerOf THEN LowerOf[c] ELSE c

Upper(s) == [i \in DOMAIN s |-> UpperChar(s[i])]

Lower(s) == [i \in DOMAIN s |-> LowerChar(s[i])]

RECURSIVE LStrip(_)
LStrip(s) == IF s # <<>> /\ IsSpace(Head(s)) THEN LStrip(Tail(s)) ELSE s

RECURSIVE RStrip(_)
RStrip(s) ==
    IF s # <<>> /\ IsSpace(s[Len(s)]) THEN RStrip(SubSeq(s, 1, Len(s) - 1)) ELSE s

Strip(s) == RStrip(LStrip(s))

StartsWith(s, p) == Len(p) <= Len(s) /\ SubSeq(s, 1, Len(p)) = p

\* Python "p in s" for strings.
Contains(s, p) ==
    \E i \in 0..(Len(s) - Len(p)) : SubSeq(s, i + 1, i + Len(p)) = p

\* s.split()[0] for a string with at least one non-space character.
FirstToken(s) ==
    LET t == LStrip(s)
        ends == {i \in 1..Len(t) : IsSpace(t[i])}
        stop == IF ends = {} THEN Len(t) + 1
                ELSE CHOOSE i \in ends : \A j \in ends : i <= j
    IN  SubSeq(t, 1, stop - 1)

\* Lexicographic order of str by code point (the order sorted() uses).
RECURSIVE StrLess(_, _)
StrLess(a, b) ==
    IF b = <<>> THEN FALSE
    ELSE IF a = <<>> THEN TRUE
    ELSE IF Head(a) = Head(b) THEN StrLess(Tail(a), Tail(b))
    ELSE Ord(Head(a)) < Ord(Head(b))

\* sorted(S) of a set of str.
RECURSIVE SortedStrs(_)
SortedStrs(S) ==
    IF S = {} THEN <<>>
    ELSE LET m == CHOOSE x \in S : \A y \in S \ {x} : StrLess(x, y)
         IN  <<m>> \o SortedStrs(S \ {m})

\* " ".join(seq)
RECURSIVE JoinSpace(_)
JoinSpace(ss) ==
    IF ss = <<>> THEN <<>>
    ELSE IF Len(ss) = 1 THEN ss[1]
    ELSE ss[1] \o <<" ">> \o JoinSpace(Tail(ss))

-----------------------------------------------------------------------------
(* AirportDatabase._normalize_airport_code                                 *)

Dashes == {"-"}

\* The character class [A-Z0-9].
CodeChars == Range(Uppers) \cup Range(Digits)

BeforeDashNoSplit(v) == v

\* re.split(r"\s*[-...]\s*", v, maxsplit=1)[0]: the text before the leftmost
\* match, which starts at the run of whitespace in front of the first dash.
\* The en dash and the em dash of the pattern act as the hyphen does.
BeforeDash(v) ==
    LET ds == {i \in 1..Len(v) : v[i] \in Dashes}
    IN  IF ds = {} THEN v
        ELSE LET d == CHOOSE i \in ds : \A j \in ds : i <= j
             IN  RStrip(SubSeq(v, 1, d - 1))

\* re.fullmatch(r"[A-Z0-9]{3,5}", t)
IsCodeToken(t) ==
    /\ Len(t) >= 3
    /\ Len(t) <= 5
    /\ \A i \in DOMAIN t : t[i] \in CodeChars

NormalizeAirportCode(value) ==
    IF value = <<>> THEN <<>>
    ELSE LET before_dash == BeforeDash(Strip(value))
             token == IF Strip(before_dash) # <<>>
                      THEN FirstToken(Strip(before_dash)) ELSE <<>>
             token_u == Upper(token)
         IN  IF IsCodeToken(token_u) THEN token_u ELSE Upper(Strip(value))

-----------------------------------------------------------------------------
(* AirportDatabase._candidate_codes                                        *)

\* Variant that never adds the K-prefixed code.
CandidateCodesNoPrefix(code_u) ==
    {code_u}
      \cup (IF StartsWith(code_u, <<"K">>) /\ 4 <= Len(code_u) /\ Len(code_u) <= 5
            THEN {Tail(code_u)} ELSE {})

CandidateCodes(code_u) ==
    {code_u}
      \cup (IF /\ code_u # <<>>
               /\ ~StartsWith(code_u, <<"K">>)
               /\ \/ Len(code_u) = 3
                  \/ /\ 3 <= Len(code_u)
                     /\ Len(code_u) <= 4
                     /\ \E i \in DOMAIN code_u : IsDigit(code_u[i])
            THEN {<<"K">> \o code_u} ELSE {})
      \cup (IF StartsWith(code_u, <<"K">>) /\ 4 <= Len(code_u) /\ Len(code_u) <= 5
            THEN {Tail(code_u)} ELSE {})

-----------------------------------------------------------------------------
(* Raw airport entries (one element of the list json.load returns)         *)

\* dict.get(k) of a str-valued key followed by "or default".
StrOr(airport, k, default) ==
    IF k \in DOMAIN airport /\ airport[k] # <<>> THEN airport[k] ELSE default

\* dict.get(k) as an Optional value: {} is None.
Get(airport, k) == IF k \in DOMAIN airport THEN {airport[k]} ELSE {}

\* Python "x or y" on Optional numbers: None and 0 are falsy.
NumOr(x, y) == IF x # {} /\ x # {0} THEN x ELSE y

\* (airport.get("icao") or airport.get("icaoCode") or "").upper()
IcaoCode(airport) == Upper(StrOr(airport, "icao", StrOr(airport, "icaoCode", <<>>)))

\* (airport.get("iata") or airport.get("iataCode") or "").upper()
IataCode(airport) == Upper(StrOr(airport, "iata", StrOr(airport, "iataCode", <<>>)))

\* A JSON value float() raises on (a string that is no number, a list),
\* held in the place of a number.
NonNumeric == -999999

\* AirportDatabase._to_float on an Optional value.
ToFloat(v) == IF v = {} \/ v = {NonNumeric} THEN {} ELSE v

\* AirportDatabase._extract_lat_lon: <<lat, lon>>, each an Optional number.
ExtractLatLon(airport) ==
    IF /\ "geometry" \in DOMAIN airport
       /\ "coordinates" \in DOMAIN airport["geometry"]
       /\ Len(airport["geometry"]["coordinates"]) = 2
    THEN LET coords == airport["geometry"]["coordinates"]
         IN  <<ToFloat({coords[2]}), ToFloat({coords[1]})>>
    ELSE <<ToFloat(NumOr(Get(airport, "lat"), Get(airport, "latitude"))),
           ToFloat(NumOr(Get(airport, "lon"), Get(airport, "longitude")))>>

\* The value held by a non-None Optional.
Val(opt) == CHOOSE v \in opt : TRUE

-----------------------------------------------------------------------------
(* AirportDatabase._haversine_nm                                           *)

\* The value of _haversine_nm in IEEE double arithmetic, in micro nautical
\* miles (R_NM = 3440.065), for latitudes in {0, 11} and longitudes in
\* {0, 11, 372} degrees, the coordinates of the model.  The code never reduces
\* a longitude, so 372 degrees is 12 degrees east to the trigonometry:
\* differences of 361 and 372 degrees give the distances of 1 and 12 degrees.
HaversineNm(lat1, lon1, lat2, lon2) ==
    LET same_lat == lat1 = lat2
        on_equator == lat1 = 0
        dlon == IF lon2 >= lon1 THEN lon2 - lon1 ELSE lon1 - lon2
    IN  IF dlon = 0 THEN (IF same_lat THEN 0 ELSE 660445068)
        ELSE IF dlon = 11
             THEN (IF ~same_lat THEN 931122943
                   ELSE IF on_equator THEN 660445068 ELSE 648274453)
        ELSE IF dlon = 361
             THEN (IF ~same_lat THEN 663135088
                   ELSE IF on_equator THEN 60040461 ELSE 58937321)
        ELSE (IF ~same_lat THEN 974102143
              ELSE IF on_equator THEN 720485529 ELSE 707200919)

\* navigation.haversine_distance, the same formula with the radius of the
\* unit: the float it returns, written as repr() writes it, for every
\* ordered pair of points of the model.  The formula reads lat1, lat2 and
\* lon2 - lon1.
HaversineTable ==
    [
     NM |->
         (
           <<0, 0, -372>> :> "720.4855287914249" @@ <<0, 0, -361>> :> "60.040460732617206" @@
           <<0, 0, -11>> :> "660.445068058806" @@ <<0, 0, 0>> :> "0.0" @@
           <<0, 0, 11>> :> "660.445068058806" @@ <<0, 0, 361>> :> "60.040460732617206" @@
           <<0, 0, 372>> :> "720.4855287914249" @@ <<0, 11, -372>> :> "974.1021431448635" @@
           <<0, 11, -361>> :> "663.1350877590412" @@ <<0, 11, -11>> :> "931.1229431185459" @@
           <<0, 11, 0>> :> "660.445068058806" @@ <<0, 11, 11>> :> "931.1229431185459" @@
           <<0, 11, 361>> :> "663.1350877590412" @@ <<0, 11, 372>> :> "974.1021431448635" @@
           <<11, 0, -372>> :> "974.1021431448635" @@ <<11, 0, -361>> :> "663.1350877590412" @@
           <<11, 0, -11>> :> "931.1229431185459" @@ <<11, 0, 0>> :> "660.445068058806" @@
           <<11, 0, 11>> :> "931.1229431185459" @@ <<11, 0, 361>> :> "663.1350877590412" @@
           <<11, 0, 372>> :> "974.1021431448635" @@ <<11, 11, -372>> :> "707.200918968537" @@
           <<11, 11, -361>> :> "58.93732112578772" @@ <<11, 11, -11>> :> "648.2744532348236" @@
           <<11, 11, 0>> :> "0.0" @@ <<11, 11, 11>> :> "648.2744532348236" @@
           <<11, 11, 361>> :> "58.93732112578772" @@ <<11, 11, 372>> :> "707.200918968537"
         ),
     KM |->
         (
           <<0, 0, -372>> :> "1334.339119734705" @@ <<0, 0, -361>> :> "111.1949266445559" @@
           <<0, 0, -11>> :> "1223.144193090146" @@ <<0, 0, 0>> :> "0.0" @@
           <<0, 0, 11>> :> "1223.144193090146" @@ <<0, 0, 361>> :> "111.1949266445559" @@
           <<0, 0, 372>> :> "1334.339119734705" @@ <<0, 11, -372>> :> "1804.0370615020138" @@
           <<0, 11, -361>> :> "1228.1261092778336" @@ <<0, 11, -11>> :> "1724.4395878008863" @@
           <<0, 11, 0>> :> "1223.144193090146" @@ <<0, 11, 11>> :> "1724.4395878008863" @@
           <<0, 11, 361>> :> "1228.1261092778336" @@ <<0, 11, 372>> :> "1804.0370615020138" @@
           <<11, 0, -372>> :> "1804.0370615020138" @@ <<11, 0, -361>> :> "1228.1261092778336" @@
           <<11, 0, -11>> :> "1724.4395878008863" @@ <<11, 0, 0>> :> "1223.144193090146" @@
           <<11, 0, 11>> :> "1724.4395878008863" @@ <<11, 0, 361>> :> "1228.1261092778336" @@
           <<11, 0, 372>> :> "1804.0370615020138" @@ <<11, 11, -372>> :> "1309.7360238101749" @@
           <<11, 11, -361>> :> "109.15191221456384" @@ <<11, 11, -11>> :> "1200.6042157805334" @@
           <<11, 11, 0>> :> "0.0" @@ <<11, 11, 11>> :> "1200.6042157805334" @@
           <<11, 11, 361>> :> "109.15191221456384" @@ <<11, 11, 372>> :> "1309.7360238101749"
         ),
     MI |->
         (
           <<0, 0, -372>> :> "829.1291331354184" @@ <<0, 0, -361>> :> "69.09409442794977" @@
           <<0, 0, -11>> :> "760.0350387074667" @@ <<0, 0, 0>> :> "0.0" @@
           <<0, 0, 11>> :> "760.0350387074667" @@ <<0, 0, 361>> :> "69.09409442794977" @@
           <<0, 0, 372>> :> "829.1291331354184" @@ <<0, 11, -372>> :> "1120.9891569728727" @@
           <<0, 11, -361>> :> "763.1306924201991" @@ <<0, 11, -11>> :> "1071.5290284392008" @@
           <<0, 11, 0>> :> "760.0350387074667" @@ <<0, 11, 11>> :> "1071.5290284392008" @@
           <<0, 11, 361>> :> "763.1306924201991" @@ <<0, 11, 372>> :> "1120.9891569728727" @@
           <<11, 0, -372>> :> "1120.9891569728727" @@ <<11, 0, -361>> :> "763.1306924201991" @@
           <<11, 0, -11>> :> "1071.5290284392008" @@ <<11, 0, 0>> :> "760.0350387074667" @@
           <<11, 0, 11>> :> "1071.5290284392008" @@ <<11, 0, 361>> :> "763.1306924201991" @@
           <<11, 0, 372>> :> "1120.9891569728727" @@ <<11, 11, -372>> :> "813.8413076533858" @@
           <<11, 11, -361>> :> "67.82460996311652" @@ <<11, 11, -11>> :> "746.0291899908924" @@
           <<11, 11, 0>> :> "0.0" @@ <<11, 11, 11>> :> "746.0291899908924" @@
           <<11, 11, 361>> :> "67.82460996311652" @@ <<11, 11, 372>> :> "813.8413076533858"
         ),
     METERS |->
         (
           <<0, 0, -372>> :> "1334339.1197347052" @@ <<0, 0, -361>> :> "111194.9266445559" @@
           <<0, 0, -11>> :> "1223144.193090146" @@ <<0, 0, 0>> :> "0.0" @@
           <<0, 0, 11>> :> "1223144.193090146" @@ <<0, 0, 361>> :> "111194.9266445559" @@
           <<0, 0, 372>> :> "1334339.1197347052" @@ <<0, 11, -372>> :> "1804037.0615020138" @@
           <<0, 11, -361>> :> "1228126.1092778337" @@ <<0, 11, -11>> :> "1724439.5878008862" @@
           <<0, 11, 0>> :> "1223144.193090146" @@ <<0, 11, 11>> :> "1724439.5878008862" @@
           <<0, 11, 361>> :> "1228126.1092778337" @@ <<0, 11, 372>> :> "1804037.0615020138" @@
           <<11, 0, -372>> :> "1804037.0615020138" @@ <<11, 0, -361>> :> "1228126.1092778337" @@
           <<11, 0, -11>> :> "1724439.5878008862" @@ <<11, 0, 0>> :> "1223144.193090146" @@
           <<11, 0, 11>> :> "1724439.5878008862" @@ <<11, 0, 361>> :> "1228126.1092778337" @@
           <<11, 0, 372>> :> "1804037.0615020138" @@ <<11, 11, -372>> :> "1309736.023810175" @@
           <<11, 11, -361>> :> "109151.91221456384" @@ <<11, 11, -11>> :> "1200604.2157805334" @@
           <<11, 11, 0>> :> "0.0" @@ <<11, 11, 11>> :> "1200604.2157805334" @@
           <<11, 11, 361>> :> "109151.91221456384" @@ <<11, 11, 372>> :> "1309736.023810175"
         )
    ]

Units == DOMAIN HaversineTable

\* Variant that takes both cosines from the first point.
HavKeyFirst(lat1, lon1, lat2, lon2) == <<lat1, lat1, lon2 - lon1>>

\* phi1, phi2 and delta_lambda; delta_phi is phi2 - phi1.
HavKey(lat1, lon1, lat2, lon2) == <<lat1, lat2, lon2 - lon1>>

HaversineDistance(lat1, lon1, lat2, lon2, unit) ==
    HaversineTable[unit][HavKey(lat1, lon1, lat2, lon2)]

\* round(x, 2) of a distance in micro nautical miles.
Round2(x) ==
    LET lo == (x \div 10000) * 10000
        r  == x - lo
    IN  IF r > 5000 THEN lo + 10000
        ELSE IF r < 5000 THEN lo
        ELSE IF (lo \div 10000) % 2 = 0 THEN lo ELSE lo + 10000

\* float("inf") as a sort key: above every distance on the sphere.
Inf == 2000000000

-----------------------------------------------------------------------------
(* difflib.SequenceMatcher(None, a, b).ratio()                             *)

\* The blocks a[i..i+k-1] = b[j..j+k-1] with k >= 1.
CommonBlocks(a, b) ==
    UNION { { <<p[1], p[2], k>> :
                k \in {k \in 1..(Len(a) - p[1] + 1) :
                          /\ p[2] + k - 1 <= Len(b)
                          /\ \A d \in 1..(k - 1) : a[p[1] + d] = b[p[2] + d]} } :
            p \in {p \in (1..Len(a)) \X (1..Len(b)) : a[p[1]] = b[p[2]]} }

\* find_longest_match: the longest block; of those the one starting
\* earliest in a; of those the one starting earliest in b.
LongestMatch(a, b) ==
    LET B == CommonBlocks(a, b)
    IN  CHOOSE t \in B : \A u \in B :
            \/ t[3] > u[3]
            \/ t[3] = u[3] /\ t[1] < u[1]
            \/ t[3] = u[3] /\ t[1] = u[1] /\ t[2] <= u[2]

\* Sum of the sizes of get_matching_blocks(): the longest block, then the
\* same to its left and to its right.
RECURSIVE MatchCount(_, _)
MatchCount(a, b) ==
    IF CommonBlocks(a, b) = {} THEN 0
    ELSE LET t == LongestMatch(a, b)
         IN  t[3]
               + MatchCount(SubSeq(a, 1, t[1] - 1), SubSeq(b, 1, t[2] - 1))
               + MatchCount(SubSeq(a, t[1] + t[3], Len(a)),
                            SubSeq(b, t[2] + t[3], Len(b)))

\* ratio() = 2.0 * matches / (len(a) + len(b)), 1.0 when both are empty.
Ratio(a, b) ==
    IF Len(a) + Len(b) = 0 THEN [n |-> 1, d |-> 1]
    ELSE [n |-> 2 * MatchCount(a, b), d |-> Len(a) + Len(b)]

\* Order of fractions with positive denominators.
FracLess(x, y) == x.n * y.d < y.n * x.d

FracEq(x, y) == x.n * y.d = y.n * x.d

FracMax(x, y) == IF FracLess(x, y) THEN y ELSE x

-----------------------------------------------------------------------------
(* The per-record part of AirportDatabase.search_airports                  *)

\* str(float(v)) of a whole number.
RECURSIVE NatStr(_)
NatStr(n) ==
    IF n < 10 THEN <<Digits[n + 1]>>
    ELSE NatStr(n \div 10) \o <<Digits[(n % 10) + 1]>>

FloatStr(v) ==
    (IF v < 0 THEN <<"-">> \o NatStr(-v) ELSE NatStr(v)) \o <<".", "0">>

\* The Airport built from a raw entry with resolved coordinates.
Normalized(airport, lat_v, lon_v) ==
    [icao      |-> IcaoCode(airport),
     iata      |-> IataCode(airport),
     name      |-> StrOr(airport, "name", <<>>),
     city      |-> StrOr(airport, "city", <<>>),
     country   |-> StrOr(airport, "country", <<>>),
     latitude  |-> lat_v,
     longitude |-> lon_v,
     elevation |-> Get(airport, "elevation"),
     type      |-> StrOr(airport, "type", <<>>)]

\* normalized["icao"] or normalized["iata"] or f"{latitude},{longitude}"
DedupKey(normalized) ==
    IF normalized.icao # <<>> THEN normalized.icao
    ELSE IF normalized.iata # <<>> THEN normalized.iata
    ELSE FloatStr(normalized.latitude) \o <<",">> \o FloatStr(normalized.longitude)

\* Variant scoring an exact code match below the text tier.
ScoreExactLow == [n |-> 60, d |-> 100]

\* The score constants of the tiers.
ScoreExact == [n |-> 100, d |-> 100]

ScoreIcaoPrefix == [n |-> 95, d |-> 100]

ScoreIataPrefix == [n |-> 90, d |-> 100]

ScoreCodeContains == [n |-> 85, d |-> 100]

ScoreTextContains == [n |-> 65, d |-> 100]

\* Variant with the threshold 0.5.
FuzzyThresholdHalf == [n |-> 5, d |-> 10]

\* The fuzzy threshold 0.6.
FuzzyThreshold == [n |-> 6, d |-> 10]

\* The text score of one raw entry for a non-empty query q, as a set:
\* {} when the entry is skipped as a low-quality match.
TextScore(q, airport) ==
    LET icao_code == IcaoCode(airport)
        iata_code == IataCode(airport)
        alt_codes == CandidateCodes(icao_code)
        name      == StrOr(airport, "name", <<>>)
        city      == StrOr(airport, "city", <<>>)
        country   == StrOr(airport, "country", <<>>)
        codes     == {icao_code, iata_code} \cup alt_codes
        code_hay  == Lower(JoinSpace(SortedStrs(codes)))
        text_hay  == Lower(code_hay \o <<" ">> \o name \o <<" ">> \o city
                             \o <<" ">> \o country)
        ratio     == FracMax(FracMax(Ratio(q, Lower(icao_code)),
                                     Ratio(q, Lower(iata_code))),
                             Ratio(q, Lower(name)))
    IN  IF q \in {Lower(c) : c \in {x \in codes : x # <<>>}}
          THEN {ScoreExact}
        ELSE IF StartsWith(Lower(icao_code), q) THEN {ScoreIcaoPrefix}
        ELSE IF StartsWith(Lower(iata_code), q) THEN {ScoreIataPrefix}
        ELSE IF Contains(code_hay, q) THEN {ScoreCodeContains}
        ELSE IF Contains(text_hay, q) THEN {ScoreTextContains}
        ELSE IF FracLess(ratio, FuzzyThreshold) THEN {}
        \* 0.5 + (ratio - 0.6) * 0.5 = (4 * d + 10 * n) / (20 * d)
        ELSE {[n |-> 4 * ratio.d + 10 * ratio.n, d |-> 20 * ratio.d]}

-----------------------------------------------------------------------------
(* AirportDatabase.search_airports                                         *)

\* Variant without the radius filter.
ExceedsRadiusNever(dist_nm, radius_nm) == FALSE

\* radius_nm is not None and dist_nm > float(radius_nm)
ExceedsRadius(dist_nm, radius_nm) ==
    radius_nm # {} /\ Val(dist_nm) > Val(radius_nm)

\* Variant without the deduplication.
AlreadySeenNever(key, seen) == FALSE

\* key in seen
AlreadySeen(key, seen) == key \in seen

\* search_airports: if dist_nm is not None: normalized["distance_nm"] =
\* round(dist_nm, 2)
AttachDistanceNever(normalized, dist_nm) == normalized
AttachDistance(normalized, dist_nm) ==
    IF dist_nm # {}
    THEN normalized @@ [distance_nm |-> Round2(Val(dist_nm))]
    ELSE normalized

\* Variant applying the text exclusion before the deduplication: an entry
\* skipped as a low-quality match leaves its key unclaimed.
ScanStepTextFirst(st, airport, q, has_geo, latitude, longitude, radius_nm) ==
    LET ll         == ExtractLatLon(airport)
        lat_v      == ll[1]
        lon_v      == ll[2]
        dist_nm    == IF has_geo
                      THEN {HaversineNm(Val(latitude), Val(longitude),
                                        Val(lat_v), Val(lon_v))}
                      ELSE {}
        normalized == Normalized(airport, Val(lat_v), Val(lon_v))
        key        == DedupKey(normalized)
        score      == IF q # <<>> THEN TextScore(q, airport)
                      ELSE {[n |-> 0, d |-> 100]}
        with_dist  == AttachDistance(normalized, dist_nm)
    IN  IF lat_v = {} \/ lon_v = {} THEN st
        ELSE IF has_geo /\ ExceedsRadius(dist_nm, radius_nm) THEN st
        ELSE IF score = {} THEN st
        ELSE IF AlreadySeen(key, st.seen) THEN st
        ELSE [seen       |-> st.seen \cup {key},
              candidates |-> Append(st.candidates,
                                [score   |-> Val(score),
                                 dist    |-> IF dist_nm # {} THEN Val(dist_nm) ELSE Inf,
                                 airport |-> with_dist])]

\* One iteration of "for airport in self.airports": st = [seen, candidates]
\* before the entry, the result is the pair after it.
ScanStep(st, airport, q, has_geo, latitude, longitude, radius_nm) ==
    LET ll         == ExtractLatLon(airport)
        lat_v      == ll[1]
        lon_v      == ll[2]
        dist_nm    == IF has_geo
                      THEN {HaversineNm(Val(latitude), Val(longitude),
                                        Val(lat_v), Val(lon_v))}
                      ELSE {}
        normalized == Normalized(airport, Val(lat_v), Val(lon_v))
        key        == DedupKey(normalized)
        score      == IF q # <<>> THEN TextScore(q, airport)
                      ELSE {[n |-> 0, d |-> 100]}
        with_dist  == AttachDistance(normalized, dist_nm)
    IN  IF lat_v = {} \/ lon_v = {} THEN st
        ELSE IF has_geo /\ ExceedsRadius(dist_nm, radius_nm) THEN st
        ELSE IF AlreadySeen(key, st.seen) THEN st
        ELSE IF score = {} THEN [st EXCEPT !.seen = @ \cup {key}]
        ELSE [seen       |-> st.seen \cup {key},
              candidates |-> Append(st.candidates,
                                [score   |-> Val(score),
                                 dist    |-> IF dist_nm # {} THEN Val(dist_nm) ELSE Inf,
                                 airport |-> with_dist])]

RECURSIVE Scan(_, _, _, _, _, _, _)
Scan(st, airports, q, has_geo, latitude, longitude, radius_nm) ==
    IF airports = <<>> THEN st
    ELSE Scan(ScanStep(st, Head(airports), q, has_geo, latitude, longitude, radius_nm),
              Tail(airports), q, has_geo, latitude, longitude, radius_nm)

\* Variant sorting by descending distance.
KeyLessDistDescending(x, y) == x.dist > y.dist

\* The sort keys: t[1] alone, or (-t[0], t[1]).
KeyLessDist(x, y) == x.dist < y.dist

\* Variant of the combined key that forgets the distance.
KeyLessScoreOnly(x, y) == FracLess(y.score, x.score)

KeyLessScoreDist(x, y) ==
    \/ FracLess(y.score, x.score)
    \/ FracEq(x.score, y.score) /\ x.dist < y.dist

\* list.sort(key=...) is stable: x goes behind every element that does not
\* compare greater than it.
RECURSIVE InsertSorted(_, _, _)
InsertSorted(sorted, x, by_dist) ==
    IF sorted = <<>> THEN <<x>>
    ELSE LET less == IF by_dist THEN KeyLessDist(x, Head(sorted))
                     ELSE KeyLessScoreDist(x, Head(sorted))
         IN  IF less THEN <<x>> \o sorted
             ELSE <<Head(sorted)>> \o InsertSorted(Tail(sorted), x, by_dist)

RECURSIVE SortCandidates(_, _)
SortCandidates(cands, by_dist) ==
    IF cands = <<>> THEN <<>>
    ELSE InsertSorted(SortCandidates(SubSeq(cands, 1, Len(cands) - 1), by_dist),
                      cands[Len(cands)], by_dist)

\* The Python slice s[:limit].
SliceTo(s, limit) ==
    IF limit >= 0
    THEN SubSeq(s, 1, IF limit < Len(s) THEN limit ELSE Len(s))
    ELSE SubSeq(s, 1, IF Len(s) + limit > 0 THEN Len(s) + limit ELSE 0)

\* (query or "").strip().lower()
QueryText(query) == IF query = {} THEN <<>> ELSE Lower(Strip(Val(query)))

HasGeo(latitude, longitude) == latitude # {} /\ longitude # {}

\* The list of (score, distance, Airport) after the sort, before the slice.
SortedCandidates(airports, query, latitude, longitude, radius_nm) ==
    LET q       == QueryText(query)
        has_geo == HasGeo(latitude, longitude)
        st      == Scan([seen |-> {}, candidates |-> <<>>], airports,
                        q, has_geo, latitude, longitude, radius_nm)
    IN  SortCandidates(st.candidates, has_geo /\ q = <<>>)

\* Variant without the early return for a call without query and point.
SearchAirportsResultNoGuard(airports, query, limit, latitude, longitude, radius_nm) ==
    LET sorted == SliceTo(SortedCandidates(airports, query, latitude,
                                           longitude, radius_nm), limit)
    IN  [i \in DOMAIN sorted |-> sorted[i].airport]

SearchAirportsResult(airports, query, limit, latitude, longitude, radius_nm) ==
    IF QueryText(query) = <<>> /\ ~HasGeo(latitude, longitude) THEN <<>>
    ELSE LET sorted == SliceTo(SortedCandidates(airports, query, latitude,
                                                longitude, radius_nm), limit)
         IN  [i \in DOMAIN sorted |-> sorted[i].airport]

-----------------------------------------------------------------------------
(* AirportDatabase.get_airport_coordinates                                 *)

\* The tests of the loop body that let an entry be returned.
CodeMatches(airport, candidates) ==
    {IcaoCode(airport), IataCode(airport)} \cap candidates # {}

CoordsResolve(airport) ==
    ExtractLatLon(airport)[1] # {} /\ ExtractLatLon(airport)[2] # {}

\* The Airport the method builds; name is airport.get("name"), an Optional.
LookupAirport(airport) ==
    [icao      |-> IcaoCode(airport),
     iata      |-> IataCode(airport),
     name      |-> Get(airport, "name"),
     city      |-> StrOr(airport, "city", <<>>),
     country   |-> StrOr(airport, "country", <<>>),
     latitude  |-> Val(ExtractLatLon(airport)[1]),
     longitude |-> Val(ExtractLatLon(airport)[2]),
     elevation |-> Get(airport, "elevation"),
     type      |-> StrOr(airport, "type", <<>>)]

\* Variant of the loop that gives up at a matching entry without coordinates
\* ("break" in place of the second "continue").
RECURSIVE LookupScanBreak(_, _)
LookupScanBreak(airports, candidates) ==
    IF airports = <<>> THEN {}
    ELSE IF ~CodeMatches(Head(airports), candidates)
      THEN LookupScanBreak(Tail(airports), candidates)
    ELSE IF ~CoordsResolve(Head(airports)) THEN {}
    ELSE {LookupAirport(Head(airports))}

\* The loop over self.airports: {} is None.
RECURSIVE LookupScan(_, _)
LookupScan(airports, candidates) ==
    IF airports = <<>> THEN {}
    ELSE IF ~CodeMatches(Head(airports), candidates)
      THEN LookupScan(Tail(airports), candidates)
    ELSE IF ~CoordsResolve(Head(airports))
      THEN LookupScan(Tail(airports), candidates)
    ELSE {LookupAirport(Head(airports))}

GetAirportCoordinatesResult(airports, code) ==
    LookupScan(airports, CandidateCodes(NormalizeAirportCode(code)))

-----------------------------------------------------------------------------
(* Bounds and input sets                                                   *)

\* Longest raw dataset.
MaxAirports == 2

\* Calls made on one database instance.
MaxCalls == 2

\* Raw entries: flat and GeoJSON shaped, with alternate key names, a shared
\* ICAO, entries without IATA, one without ICAO, one without any code, one
\* without a name, one without coordinates and one whose longitude lies
\* outside [-180, 180].
RawEntries ==
    { [icao |-> <<"K","K","I","C">>, iata |-> <<"K","I","C">>,
       name |-> <<"K","i","n","g">>, lat |-> 11, lon |-> 372],
      [icao |-> <<"K","K","I","C">>,
       lat |-> 11, lon |-> 0, longitude |-> 0],
      [iataCode |-> <<"s","a","n">>, name |-> <<"P","a","d">>,
       lat |-> 11, lon |-> 11],
      [icaoCode |-> <<"k","s","a","n">>, name |-> <<"S","a","n">>,
       geometry |-> [coordinates |-> <<0, 11>>]],
      [icao |-> <<"K","S","A","N">>, iata |-> <<"S","A","N">>,
       name |-> <<"N","i","l">>],
      [name |-> <<"S","a","n">>, latitude |-> 0, lon |-> 11] }

RECURSIVE SeqsUpTo(_, _)
SeqsUpTo(S, n) ==
    IF n = 0 THEN {<<>>}
    ELSE LET shorter == SeqsUpTo(S, n - 1)
         IN  shorter \cup {Append(t, x) : t \in shorter, x \in S}

\* The raw source: the entries written in the file, and whether open() +
\* json.load() succeed on it or raise (missing, unreadable or malformed file).
Sources ==
    {[ok |-> TRUE, data |-> d] : d \in SeqsUpTo(RawEntries, MaxAirports)}
      \cup {[ok |-> FALSE, data |-> d] : d \in SeqsUpTo(RawEntries, 1)}

Codes ==
    { <<>>, <<" ", " ">>,
      <<"K","I","C">>, <<"k","k","i","c">>,
      <<"K","K","I","C"," ","-"," ","K","i","n","g">>,
      <<"X","X","X","X">>,
      <<"S","A","N">>, <<"k","s","a","n">> }

Queries ==
    { {}, {<<" ", " ">>}, {<<"s","a","n">>}, {<<" ","S","a">>},
      {<<"K","i","n","x">>}, {<<"k">>} }

Limits == {-1, 0, 1, 2}

RefLats == {{}, {0}, {11}}

RefLons == {{}, {0}}

\* Radii in micro nautical miles: none, and 660.447.
Radii == {{}, {660447000}}

Requests ==
    {[op |-> "lookup", code |-> c] : c \in Codes}
      \cup {[op |-> "search", query |-> qy, limit |-> li, latitude |-> la,
             longitude |-> lo, radius_nm |-> ra] :
               qy \in Queries, li \in Limits, la \in RefLats,
               lo \in RefLons, ra \in Radii}

-----------------------------------------------------------------------------
(* One AirportDatabase instance and its callers                            *)

\* Threads calling into one instance at the same time.
NumThreads == 2

Threads == 1..NumThreads

VARIABLES
    source,     \* the file at data_path
    airports,   \* self.airports
    loaded,     \* self.loaded
    reads,      \* number of times the file was opened
    req,        \* the call the caller makes
    calls,      \* number of calls returned
    found,      \* return value of the last get_airport_coordinates
    results,    \* return value of the last search_airports
    pc,         \* per thread: its position in get_airport_coordinates
    data,       \* per thread: the value json.load(f) returned to it
    view,       \* per thread: the entries its loop has visited, in order
    held,       \* per thread: the list its loop iterates over
    arg,        \* the arguments of a call of one of the static helpers
    ret         \* what that call returned: {} before it returns

fnvars == <<arg, ret>>

dbvars == <<source, airports, loaded, reads, req, calls, found, results,
            pc, data, view, held>>

vars == <<dbvars, fnvars>>

\* No helper is called on its own.
NoHelperCall == arg = [fn |-> "none"] /\ ret = {}

\* AirportDatabase.__init__, with a single caller.
Init ==
    /\ source \in Sources
    /\ airports = <<>>
    /\ loaded = FALSE
    /\ reads = 0
    /\ req \in Requests
    /\ calls = 0
    /\ found = {}
    /\ results = <<>>
    /\ pc = [t \in Threads |-> "idle"]
    /\ data = [t \in Threads |-> <<>>]
    /\ view = [t \in Threads |-> <<>>]
    /\ held = [t \in Threads |-> <<>>]
    /\ NoHelperCall

\* The list _load_airports leaves in self.airports after reading src.
LoadedSnapshotPartial(src) == src.data
LoadedSnapshot(src) == IF src.ok THEN src.data ELSE <<>>

\* Variant whose later calls drop the snapshot instead of keeping it.
LoadAirportsForgets ==
    IF loaded
    THEN airports' = <<>> /\ UNCHANGED <<loaded, reads>>
    ELSE /\ reads' = reads + 1
         /\ airports' = LoadedSnapshot(source)
         /\ loaded' = source.ok

\* AirportDatabase._load_airports
LoadAirports ==
    IF loaded
    THEN UNCHANGED <<airports, loaded, reads>>
    ELSE /\ reads' = reads + 1
         /\ airports' = LoadedSnapshot(source)
         /\ loaded' = source.ok

\* AirportDatabase.get_airport_coordinates(code)
GetAirportCoordinates ==
    /\ req.op = "lookup"
    /\ calls < MaxCalls
    /\ LoadAirports
    /\ found' = GetAirportCoordinatesResult(airports', req.code)
    /\ calls' = calls + 1
    /\ UNCHANGED fnvars
    /\ UNCHANGED <<source, req, results, pc, data, view, held>>

\* AirportDatabase.search_airports(query=, limit=, latitude=, longitude=,
\* radius_nm=)
SearchAirports ==
    /\ req.op = "search"
    /\ calls < MaxCalls
    /\ LoadAirports
    /\ results' = SearchAirportsResult(airports', req.query, req.limit,
                                       req.latitude, req.longitude, req.radius_nm)
    /\ calls' = calls + 1
    /\ UNCHANGED fnvars
    /\ UNCHANGED <<source, req, found, pc, data, view, held>>

Next == GetAirportCoordinates \/ SearchAirports

Spec == Init /\ [][Next]_vars

-----------------------------------------------------------------------------
(* Several threads in get_airport_coordinates on one fresh instance.  The *)
(* interpreter switches threads between statements, and around the file   *)
(* read; a thread is at "call", "open", "assign", "flag", "except",        *)
(* "scan", "loop" or "done".                                               *)

\* Sources of at most one entry, and the readable sources of two entries
\* that hold King (KKIC/KIC) and Pad (SAN), in either order.
ThreadSources ==
    {s \in Sources : Len(s.data) <= 1}
      \cup {s \in Sources :
               /\ s.ok
               /\ Len(s.data) = 2
               /\ {IataCode(s.data[i]) : i \in 1..2}
                     = {<<"K","I","C">>, <<"S","A","N">>}
               /\ \A i \in 1..2 : IcaoCode(s.data[i]) # <<"K","S","A","N">>}

ThreadCodes == { <<"S","A","N">>, <<"K","I","C">> }

InitThreads ==
    /\ source \in ThreadSources
    /\ airports = <<>>
    /\ loaded = FALSE
    /\ reads = 0
    /\ req \in {[op |-> "lookup", code |-> c] : c \in ThreadCodes}
    /\ calls = 0
    /\ found = {}
    /\ results = <<>>
    /\ pc = [t \in Threads |-> "call"]
    /\ data = [t \in Threads |-> <<>>]
    /\ view = [t \in Threads |-> <<>>]
    /\ held = [t \in Threads |-> <<>>]
    /\ NoHelperCall

\* _load_airports: if self.loaded: return
CheckLoaded(t) ==
    /\ pc[t] = "call"
    /\ pc' = [pc EXCEPT ![t] = IF loaded THEN "scan" ELSE "open"]
    /\ UNCHANGED fnvars
    /\ UNCHANGED <<source, airports, loaded, reads, req, calls, found,
                   results, data, view, held>>

\* _load_airports: open(self.data_path) and json.load(f); the read raises on
\* a source that cannot be read, and may fail on its own on one that can.
ReadSource(t) ==
    /\ pc[t] = "open"
    /\ reads' = reads + 1
    /\ \E ok \in {source.ok, FALSE} :
           IF ok
           THEN /\ data' = [data EXCEPT ![t] = source.data]
                /\ pc' = [pc EXCEPT ![t] = "assign"]
           ELSE /\ data' = data
                /\ pc' = [pc EXCEPT ![t] = "except"]
    /\ UNCHANGED fnvars
    /\ UNCHANGED <<source, airports, loaded, req, calls, found, results, view, held>>

\* _load_airports: self.airports = <the list json.load returned>
AssignAirports(t) ==
    /\ pc[t] = "assign"
    /\ airports' = data[t]
    /\ pc' = [pc EXCEPT ![t] = "flag"]
    /\ UNCHANGED fnvars
    /\ UNCHANGED <<source, loaded, reads, req, calls, found, results, data, view, held>>

\* _load_airports: self.loaded = True
SetLoaded(t) ==
    /\ pc[t] = "flag"
    /\ loaded' = TRUE
    /\ pc' = [pc EXCEPT ![t] = "scan"]
    /\ UNCHANGED fnvars
    /\ UNCHANGED <<source, airports, reads, req, calls, found, results,
                   data, view, held>>

\* _load_airports: except Exception: self.airports = []
ResetAirports(t) ==
    /\ pc[t] = "except"
    /\ airports' = <<>>
    /\ pc' = [pc EXCEPT ![t] = "scan"]
    /\ UNCHANGED fnvars
    /\ UNCHANGED <<source, loaded, reads, req, calls, found, results, data, view, held>>

\* Variant of the loop that indexes self.airports anew in every iteration.
ScannedListShared(own, current) == current

\* The list the loop walks: "for airport in self.airports" evaluates
\* self.airports once and iterates over that list object, which no statement
\* changes in place.
ScannedList(own, current) == own

\* get_airport_coordinates after the load: "for airport in self.airports"
\* takes the list self.airports refers to at that moment.
ScanBegin(t) ==
    /\ pc[t] = "scan"
    /\ held' = [held EXCEPT ![t] = airports]
    /\ view' = [view EXCEPT ![t] = <<>>]
    /\ pc' = [pc EXCEPT ![t] = "loop"]
    /\ UNCHANGED fnvars
    /\ UNCHANGED <<source, airports, loaded, reads, req, calls, found,
                   results, data>>

\* One iteration of the loop, or its end: the next entry is visited and
\* returned when it matches and has coordinates; None is returned when the
\* list is exhausted.
ScanNext(t) ==
    /\ pc[t] = "loop"
    /\ LET list == ScannedList(held[t], airports)
           i    == Len(view[t]) + 1
           candidates == CandidateCodes(NormalizeAirportCode(req.code))
       IN  IF i > Len(list)
           THEN /\ found' = {}
                /\ calls' = calls + 1
                /\ pc' = [pc EXCEPT ![t] = "done"]
                /\ view' = view
           ELSE /\ view' = [view EXCEPT ![t] = Append(@, list[i])]
                /\ IF CodeMatches(list[i], candidates) /\ CoordsResolve(list[i])
                   THEN /\ found' = {LookupAirport(list[i])}
                        /\ calls' = calls + 1
                        /\ pc' = [pc EXCEPT ![t] = "done"]
                   ELSE UNCHANGED <<found, calls, pc>>
    /\ UNCHANGED fnvars
    /\ UNCHANGED <<source, airports, loaded, reads, req, results, data, held>>

NextThreads ==
    \E t \in Threads :
        \/ CheckLoaded(t)
        \/ ReadSource(t)
        \/ AssignAirports(t)
        \/ SetLoaded(t)
        \/ ResetAirports(t)
        \/ ScanBegin(t)
        \/ ScanNext(t)

SpecThreads == InitThreads /\ [][NextThreads]_vars

-----------------------------------------------------------------------------
(* The static helpers called on their own: the arguments are drawn in the  *)
(* initial state and one call returns.                                     *)

\* Points <<lat, lon>> of the distance functions.
FnPoints == {0, 11} \X {0, 11, 372}

HaversineArgs ==
    {[fn |-> "haversine", a |-> a, b |-> b, unit |-> u] :
        a \in FnPoints, b \in FnPoints, u \in Units}

\* Codes of every length from 0 to 6, with and without a leading K, with
\* and without a digit.
CandidateArgs ==
    {[fn |-> "candidates", code |-> c] :
        c \in { <<>>, <<"K">>, <<"S","A">>, <<"S","5">>,
                 <<"S","A","N">>, <<"7","S","5">>, <<"K","I","C">>,
                 <<"k","i","c">>,
                 <<"S","A","N","X">>, <<"S","5","A","N">>,
                 <<"K","S","A","N">>, <<"K","7","S","5">>,
                 <<"S","A","N","X","Y">>, <<"7","S","5","X","Y">>,
                 <<"K","S","A","N","X">>, <<"K","S","A","N","X","Y">> }}

\* User input: blank, bare codes, codes with a description after a dash,
\* several words, tokens too short, too long or with a character outside
\* A-Z/0-9.
NormalizeArgs ==
    {[fn |-> "normalize", value |-> v] :
        v \in { <<>>,
                 <<" "," ">>,
                 <<"K","I","C">>,
                 <<"k","k","i","c">>,
                 <<"K","K","I","C"," ","-"," ","K","i","n","g">>,
                 <<"k","s","a","n","-","x">>,
                 <<" ","s","a","n"," "," ","d","i","e","g","o">>,
                 <<"a","b">>,
                 <<"t","o","o","l","o","n","g">>,
                 <<"-","K","S","A","N">>,
                 <<"a","-","b">>,
                 <<"k","7","s","5"," ","x">>,
                 <<"s","a","n",".","x">>,
                 <<"a","b","-","c","d","-","e">>,
                 <<"a","b","c"," "," ","-"," "," ","d">>,
                 <<"a","b","c","d","e","f"," ","-"," ","g">>,
                 <<" ","-"," ">> }}

\* Raw entries with and without codes, city and country.
ScoreEntries ==
    { [icao |-> <<"K","K","I","C">>, iata |-> <<"K","I","C">>,
       name |-> <<"K","i","n","g">>, city |-> <<"R","e","n","o">>,
       country |-> <<"U","S">>],
      [icaoCode |-> <<"k","s","a","n">>, iata |-> <<"S","A","N">>,
       name |-> <<"S","a","n">>],
      [iata |-> <<"S","A","N">>, name |-> <<"P","a","d">>],
      [name |-> <<"K","i","n","o">>] }

\* Values of q: stripped, lower-cased and non-empty.
ScoreQueries ==
    { <<"k","k","i","c">>,
      <<"k","i","c">>,
      <<"s","a","n">>,
      <<"k","k">>,
      <<"k","i">>,
      <<"i","c">>,
      <<"s","a">>,
      <<"r","e","n","o">>,
      <<"u","s">>,
      <<"k","i","n","x">>,
      <<"k","s","a","x">>,
      <<"k","x","y","z">>,
      <<"s","x","n">>,
      <<"k","i","n","x","y","z">>,
      <<"k","i","x","y">>,
      <<"k","i","c"," ","k","k","i","c">>,
      <<"n","g"," ","r","e">> }

ScoreArgs ==
    {[fn |-> "score", q |-> q, airport |-> a] :
        q \in ScoreQueries, a \in ScoreEntries}

\* One key of a raw entry holding the value of an Optional, absent for None.
Field(k, v) == IF v = {} THEN <<>> ELSE k :> Val(v)

\* The geometry member of a raw entry: absent, without coordinates, a
\* [lon, lat] pair, lists of other lengths, pairs with a non-numeric element.
Geometries ==
    { {}, {<<>>},
      {[coordinates |-> <<0, 11>>]},
      {[coordinates |-> <<11>>]},
      {[coordinates |-> <<0, 11, 5>>]},
      {[coordinates |-> <<NonNumeric, 11>>]},
      {[coordinates |-> <<0, NonNumeric>>]} }

\* Raw entries with every combination of the coordinate members.
CoordEntries ==
    { Field("geometry", g) @@ Field("lat", la) @@ Field("latitude", lt)
          @@ Field("lon", lo) @@ Field("longitude", lg) :
        g \in Geometries, la \in {{}, {0}, {11}, {NonNumeric}},
        lt \in {{}, {0}, {11}}, lo \in {{}, {0}, {11}}, lg \in {{}, {0}} }

ExtractArgs == {[fn |-> "extract", airport |-> a] : a \in CoordEntries}

FnArgs ==
    HaversineArgs \cup CandidateArgs \cup NormalizeArgs \cup ScoreArgs
        \cup ExtractArgs

InitFn ==
    /\ source = [ok |-> TRUE, data |-> <<>>]
    /\ airports = <<>>
    /\ loaded = FALSE
    /\ reads = 0
    /\ req = [op |-> "none"]
    /\ calls = 0
    /\ found = {}
    /\ results = <<>>
    /\ pc = [t \in Threads |-> "idle"]
    /\ data = [t \in Threads |-> <<>>]
    /\ view = [t \in Threads |-> <<>>]
    /\ held = [t \in Threads |-> <<>>]
    /\ arg \in FnArgs
    /\ ret = {}

\* haversine_distance and _haversine_nm from a to b and from b to a.
CallHaversine ==
    /\ arg.fn = "haversine"
    /\ ret = {}
    /\ ret' = {[there    |-> HaversineDistance(arg.a[1], arg.a[2],
                                                arg.b[1], arg.b[2], arg.unit),
                back     |-> HaversineDistance(arg.b[1], arg.b[2],
                                                arg.a[1], arg.a[2], arg.unit),
                nm_there |-> HaversineNm(arg.a[1], arg.a[2], arg.b[1], arg.b[2]),
                nm_back  |-> HaversineNm(arg.b[1], arg.b[2], arg.a[1], arg.a[2])]}
    /\ UNCHANGED arg
    /\ UNCHANGED dbvars

\* AirportDatabase._candidate_codes(code_u)
CallCandidateCodes ==
    /\ arg.fn = "candidates"
    /\ ret = {}
    /\ ret' = {CandidateCodes(arg.code)}
    /\ UNCHANGED arg
    /\ UNCHANGED dbvars

\* AirportDatabase._normalize_airport_code(value)
CallNormalize ==
    /\ arg.fn = "normalize"
    /\ ret = {}
    /\ ret' = {NormalizeAirportCode(arg.value)}
    /\ UNCHANGED arg
    /\ UNCHANGED dbvars

\* The scoring block of search_airports for one entry ("if q:").
CallTextScore ==
    /\ arg.fn = "score"
    /\ ret = {}
    /\ ret' = {TextScore(arg.q, arg.airport)}
    /\ UNCHANGED arg
    /\ UNCHANGED dbvars

\* AirportDatabase._extract_lat_lon(airport)
CallExtractLatLon ==
    /\ arg.fn = "extract"
    /\ ret = {}
    /\ ret' = {ExtractLatLon(arg.airport)}
    /\ UNCHANGED arg
    /\ UNCHANGED dbvars

NextFn ==
    \/ CallExtractLatLon
    \/ CallHaversine
    \/ CallCandidateCodes
    \/ CallNormalize
    \/ CallTextScore

SpecFn == InitFn /\ [][NextFn]_vars

-----------------------------------------------------------------------------
(* Properties                                                              *)

LookupDone == req.op = "lookup" /\ calls > 0

SearchDone == req.op = "search" /\ calls > 0

Min(S) == CHOOSE x \in S : \A y \in S : x <= y

\* The entries lookup-by-code may return for a code: upper-cased ICAO or IATA
\* in candidates(normalize(code)), both coordinates resolved.
Eligible(code) ==
    LET cands == CandidateCodes(NormalizeAirportCode(code))
    IN  {i \in DOMAIN airports :
            /\ IcaoCode(airports[i]) \in cands \/ IataCode(airports[i]) \in cands
            /\ ExtractLatLon(airports[i])[1] # {}
            /\ ExtractLatLon(airports[i])[2] # {}}

\* C1: lookup-by-code returns the first entry in snapshot order whose
\* upper-cased ICAO or IATA is a candidate of the normalized code and whose
\* coordinates resolve, and None exactly when there is no such entry.
C1_LookupReturnsFirstEligible ==
    LookupDone =>
        IF Eligible(req.code) = {} THEN found = {}
        ELSE LET a == airports[Min(Eligible(req.code))]
             IN  /\ found # {}
                 /\ Val(found).icao = IcaoCode(a)
                 /\ Val(found).iata = IataCode(a)
                 /\ Val(found).name = Get(a, "name")
                 /\ {Val(found).latitude} = ExtractLatLon(a)[1]
                 /\ {Val(found).longitude} = ExtractLatLon(a)[2]

\* A lookup that returns the second entry because the first one, which has a
\* candidate code, has no coordinates.
C1_Witness ==
    /\ LookupDone
    /\ found # {}
    /\ Len(airports) = 2
    /\ Min(Eligible(req.code)) = 2
    /\ CodeMatches(airports[1], CandidateCodes(NormalizeAirportCode(req.code)))

\* C2: lookup-by-code with an empty or whitespace-only code returns None,
\* whatever the snapshot holds.
C2_BlankCodeNotFound ==
    (LookupDone /\ Strip(req.code) = <<>>) => found = {}

\* The dedup key of a returned record: ICAO, else IATA, else "lat,lon".
ResultKey(r) ==
    IF r.icao # <<>> THEN r.icao
    ELSE IF r.iata # <<>> THEN r.iata
    ELSE FloatStr(r.latitude) \o <<",">> \o FloatStr(r.longitude)

\* C3: no two records of a search result share the same dedup key.
C3_NoSharedDedupKey ==
    SearchDone =>
        \A i, j \in DOMAIN results :
            i # j => ResultKey(results[i]) # ResultKey(results[j])

\* A search that returned a record while the snapshot holds two entries with
\* resolved coordinates and that record's key.
C3_Witness ==
    /\ SearchDone
    /\ Len(results) = 1
    /\ Len(airports) = 2
    /\ \A i \in {1, 2} :
          /\ CoordsResolve(airports[i])
          /\ DedupKey(Normalized(airports[i], Val(ExtractLatLon(airports[i])[1]),
                                 Val(ExtractLatLon(airports[i])[2])))
               = ResultKey(results[1])
    /\ airports[1] # airports[2]
    /\ req.limit = 2
    /\ req.radius_nm = {}

\* The arguments of the search, as the method reads them.
ReqText == QueryText(req.query)

ReqHasGeo == req.latitude # {} /\ req.longitude # {}

\* The sorted (score, distance, Airport) list of the request, before the slice.
ReqSorted ==
    SortedCandidates(airports, req.query, req.latitude, req.longitude,
                     req.radius_nm)

Max(a, b) == IF a >= b THEN a ELSE b

\* C4: for every integer limit, zero and negative included, a search returns
\* at most max(limit, 0) records, and they are the first elements of the
\* fully sorted candidate list.
C4_AtMostLimitRecords ==
    (SearchDone /\ (ReqText # <<>> \/ ReqHasGeo)) =>
        /\ Len(results) <= Max(req.limit, 0)
        /\ \A i \in DOMAIN results : results[i] = ReqSorted[i].airport

\* The distance from the reference point of the request to a returned record.
ReqDistance(r) ==
    HaversineNm(Val(req.latitude), Val(req.longitude), r.latitude, r.longitude)

\* C5: every record of a search with a reference point and a radius carries
\* distance_nm, the distance rounded to 2 decimals, and distance_nm <=
\* radius_nm.
C5_DistanceNmWithinRadius ==
    (SearchDone /\ ReqHasGeo /\ req.radius_nm # {}) =>
        \A i \in DOMAIN results :
            /\ "distance_nm" \in DOMAIN results[i]
            /\ results[i].distance_nm = Round2(ReqDistance(results[i]))
            /\ results[i].distance_nm <= Val(req.radius_nm)

\* C5 as amended: distance_nm is the rounding of a distance that is <=
\* radius_nm, so distance_nm <= radius_nm rounded to 2 decimals.
C5_DistanceWithinRadiusBeforeRounding ==
    (SearchDone /\ ReqHasGeo /\ req.radius_nm # {}) =>
        \A i \in DOMAIN results :
            /\ "distance_nm" \in DOMAIN results[i]
            /\ results[i].distance_nm = Round2(ReqDistance(results[i]))
            /\ ReqDistance(results[i]) <= Val(req.radius_nm)
            /\ results[i].distance_nm <= Round2(Val(req.radius_nm))

\* A search with a radius that returned a record while the snapshot holds an
\* entry with coordinates beyond the radius.
C5_Witness ==
    /\ SearchDone
    /\ ReqHasGeo
    /\ req.radius_nm # {}
    /\ results # <<>>
    /\ \E i \in DOMAIN airports :
          /\ CoordsResolve(airports[i])
          /\ HaversineNm(Val(req.latitude), Val(req.longitude),
                         Val(ExtractLatLon(airports[i])[1]),
                         Val(ExtractLatLon(airports[i])[2])) > Val(req.radius_nm)

\* C6: a proximity-only search, with or without radius, returns its records
\* in non-decreasing order of distance_nm.
C6_ProximityOnlyAscendingDistance ==
    (SearchDone /\ ReqText = <<>> /\ ReqHasGeo) =>
        \A i, j \in DOMAIN results :
            i < j => results[i].distance_nm <= results[j].distance_nm

\* The record search_airports builds from a raw entry, without distance_nm.
EntryRecord(airport) ==
    Normalized(airport, Val(ExtractLatLon(airport)[1]), Val(ExtractLatLon(airport)[2]))

\* The record r without its distance_nm.
Bare(r) == [k \in DOMAIN r \ {"distance_nm"} |-> r[k]]

\* A proximity-only search that returned the second entry of the snapshot
\* before the first one, the second one being nearer.
C6_Witness ==
    /\ SearchDone
    /\ ReqText = <<>>
    /\ ReqHasGeo
    /\ Len(results) = 2
    /\ Len(airports) = 2
    /\ results[1].distance_nm < results[2].distance_nm
    /\ Bare(results[1]) = EntryRecord(airports[2])
    /\ Bare(results[2]) = EntryRecord(airports[1])

\* The first entry of the snapshot that claims the dedup key of a returned
\* record: coordinates resolved, within the radius of the request.
KeptIdx(r) ==
    Min({k \in DOMAIN airports :
            /\ CoordsResolve(airports[k])
            /\ DedupKey(EntryRecord(airports[k])) = ResultKey(r)
            /\ ~(/\ ReqHasGeo
                 /\ req.radius_nm # {}
                 /\ ReqDistance(EntryRecord(airports[k])) > Val(req.radius_nm))})

\* The text score and distance a returned record was ranked with.
RankScore(r) == Val(TextScore(ReqText, airports[KeptIdx(r)]))

RankDist(r) == IF ReqHasGeo THEN ReqDistance(r) ELSE Inf

\* C7: a text-only or combined search returns its records by descending
\* score, ties by ascending distance (no distance counting as +infinity), and
\* records equal on both in snapshot order.
C7_TextOrderScoreThenDistance ==
    (SearchDone /\ ReqText # <<>>) =>
        /\ \A i \in DOMAIN results :
              Bare(results[i]) = EntryRecord(airports[KeptIdx(results[i])])
        /\ \A i, j \in DOMAIN results :
              i < j =>
                \/ FracLess(RankScore(results[j]), RankScore(results[i]))
                \/ /\ FracEq(RankScore(results[i]), RankScore(results[j]))
                   /\ RankDist(results[i]) < RankDist(results[j])
                \/ /\ FracEq(RankScore(results[i]), RankScore(results[j]))
                   /\ RankDist(results[i]) = RankDist(results[j])
                   /\ KeptIdx(results[i]) < KeptIdx(results[j])

\* A combined search with two records of equal score, returned against
\* snapshot order because the later entry is nearer.
C7_Witness ==
    /\ SearchDone
    /\ ReqText # <<>>
    /\ ReqHasGeo
    /\ Len(results) = 2
    /\ FracEq(RankScore(results[1]), RankScore(results[2]))
    /\ RankDist(results[1]) < RankDist(results[2])
    /\ KeptIdx(results[1]) > KeptIdx(results[2])

\* The query equals the ICAO, the IATA or a candidate code of the record.
IsExactCodeMatch(r) ==
    ReqText \in {Lower(c) : c \in ({r.icao, r.iata} \cup CandidateCodes(r.icao)) \ {<<>>}}

\* C8: in a search by text every returned record whose ICAO, IATA or
\* candidate code equals the query comes before every record matched by a
\* lower tier.
C8_ExactCodeMatchFirst ==
    (SearchDone /\ ReqText # <<>> /\ ~ReqHasGeo) =>
        \A i, j \in DOMAIN results :
            (i < j /\ IsExactCodeMatch(results[j])) => IsExactCodeMatch(results[i])

\* A search by text that returned an exact code match first and a lower-tier
\* match second, the exact match being the later entry of the snapshot.
C8_Witness ==
    /\ SearchDone
    /\ ReqText # <<>>
    /\ ~ReqHasGeo
    /\ Len(results) = 2
    /\ Len(airports) = 2
    /\ IsExactCodeMatch(results[1])
    /\ ~IsExactCodeMatch(results[2])
    /\ results[1] = EntryRecord(airports[2])

\* C9: a search whose query is absent or blank and that lacks lat or lon
\* returns the empty list, whatever the radius, the limit and the snapshot.
C9_NoQueryNoPointEmpty ==
    (/\ SearchDone
     /\ req.query = {} \/ Strip(Val(req.query)) = <<>>
     /\ req.latitude = {} \/ req.longitude = {}) => results = <<>>

\* Such a search with a lone latitude, a radius and a positive limit, on a
\* snapshot that holds an entry with coordinates.
C9_Witness ==
    /\ SearchDone
    /\ req.query # {}
    /\ Strip(Val(req.query)) = <<>>
    /\ req.latitude # {}
    /\ req.longitude = {}
    /\ req.radius_nm # {}
    /\ req.limit > 0
    /\ \E i \in DOMAIN airports : CoordsResolve(airports[i])
    /\ results = <<>>

\* lookup-by-code of another code on the snapshot of the state.
LookupOf(code) == GetAirportCoordinatesResult(airports, code)

DescriptionSuffix == <<" ", "-", " ", "X", "y">>

\* The first whitespace-delimited token of the text before the first dash.
LeadToken(code) ==
    LET before == Strip(BeforeDash(Strip(code)))
    IN  IF before = <<>> THEN <<>> ELSE Upper(FirstToken(before))

\* C10: the result of lookup-by-code depends only on the candidate set, so
\* inputs that differ in letter case, by a trailing " - description" suffix
\* (of a non-blank code) or by the K prefix of a 3-character code return the
\* same record.
C10_SameRecordForVariants ==
    LookupDone =>
        /\ \A c \in Codes :
              CandidateCodes(NormalizeAirportCode(c))
                  = CandidateCodes(NormalizeAirportCode(req.code))
                => LookupOf(c) = found
        /\ LookupOf(Upper(req.code)) = found
        /\ LookupOf(Lower(req.code)) = found
        /\ Strip(req.code) # <<>> => LookupOf(req.code \o DescriptionSuffix) = found
        /\ Len(req.code) = 3 => LookupOf(<<"K">> \o req.code) = found

\* C10 as amended: the suffix is ignored after a leading token of 3 to 5
\* letters or digits, and the K prefix is interchangeable for a 3-character
\* code of letters and digits that does not itself start with K.
C10_SameRecordForCodeShapedVariants ==
    LookupDone =>
        /\ \A c \in Codes :
              CandidateCodes(NormalizeAirportCode(c))
                  = CandidateCodes(NormalizeAirportCode(req.code))
                => LookupOf(c) = found
        /\ LookupOf(Upper(req.code)) = found
        /\ LookupOf(Lower(req.code)) = found
        /\ IsCodeToken(LeadToken(req.code))
             => LookupOf(req.code \o DescriptionSuffix) = found
        /\ (/\ Len(req.code) = 3
            /\ IsCodeToken(Upper(req.code))
            /\ Upper(req.code)[1] # "K")
             => LookupOf(<<"K">> \o req.code) = found

\* A lookup of a 3-character code that found a record through the K-prefixed
\* candidate only.
C10_Witness ==
    /\ LookupDone
    /\ Len(req.code) = 3
    /\ found # {}
    /\ Val(found).icao = <<"K">> \o Upper(req.code)
    /\ Val(found).iata # Upper(req.code)

-----------------------------------------------------------------------------
(* K-prefix expansion in lookup-by-code                                    *)

\* The looked-up code is three letters or digits and does not start with K.
ShortCodeNoK ==
    /\ Len(req.code) = 3
    /\ IsCodeToken(Upper(req.code))
    /\ Upper(req.code)[1] # "K"

KCode == <<"K">> \o Upper(req.code)

\* Entries with coordinates whose ICAO is "K" + the looked-up code.
KRecords ==
    {i \in DOMAIN airports :
        IcaoCode(airports[i]) = KCode /\ CoordsResolve(airports[i])}

\* C11: for a 3-character code X not starting with K, if the snapshot holds
\* an entry with ICAO "K"+X and coordinates, lookup-by-code(X) returns a
\* record whose ICAO is "K"+X.
C11_KPrefixResolves ==
    (LookupDone /\ ShortCodeNoK /\ KRecords # {}) =>
        (found # {} /\ Val(found).icao = KCode)

\* Entries with coordinates before the first "K"+X entry that carry X as
\* ICAO, or X or "K"+X as IATA.
EarlierHolders ==
    {i \in DOMAIN airports :
        /\ i < Min(KRecords)
        /\ CoordsResolve(airports[i])
        /\ \/ IcaoCode(airports[i]) = Upper(req.code)
           \/ IataCode(airports[i]) \in {Upper(req.code), KCode}}

\* C11: in that case lookup-by-code(X) returns a record, the one of the
\* first entry with coordinates whose ICAO or IATA is X or "K"+X: its ICAO is
\* "K"+X unless an earlier entry carries X as ICAO or X or "K"+X as IATA, and
\* then it is the record of the first such entry.
C11_KPrefixResolvesUnlessEarlierHolder ==
    (LookupDone /\ ShortCodeNoK /\ KRecords # {}) =>
        /\ found # {}
        /\ IF EarlierHolders = {}
           THEN Val(found).icao = KCode
           ELSE /\ Val(found) = LookupAirport(airports[Min(EarlierHolders)])
                /\ Val(found).icao # KCode

\* lookup-by-code("SAN") answered by the K-prefixed entry, which carries no
\* IATA code, after an entry that matches neither code.
C11_Witness ==
    /\ LookupDone
    /\ ShortCodeNoK
    /\ Len(airports) = 2
    /\ KRecords = {2}
    /\ EarlierHolders = {}
    /\ CoordsResolve(airports[1])
    /\ found # {}
    /\ Val(found).icao = KCode
    /\ Val(found).iata = <<>>

-----------------------------------------------------------------------------
(* Loading                                                                 *)

\* C12: when several threads make their first query on one instance at the
\* same time, the raw source is read at most once.
C12_ConcurrentFirstQueriesReadOnce == reads <= 1

\* C13: over a sequence of queries on one instance only the first call reads
\* the raw source, whether that read succeeded or failed.
C13_OnlyFirstCallReads == calls >= 1 => reads = 1

\* C14: a raw source that cannot be read leaves an empty snapshot, and then
\* lookup-by-code returns None and every search returns the empty list.
C14_UnreadableSourceNoData ==
    (~source.ok /\ calls > 0) =>
        /\ airports = <<>>
        /\ found = {}
        /\ results = <<>>

\* A search with a reference point and a positive limit answered from an
\* unreadable file that holds an entry with coordinates.
C14_Witness ==
    /\ ~source.ok
    /\ SearchDone
    /\ ReqHasGeo
    /\ req.radius_nm = {}
    /\ req.limit >= 1
    /\ Len(source.data) = 1
    /\ CoordsResolve(source.data[1])
    /\ results = <<>>

\* The dataset without the entries whose latitude or longitude does not
\* resolve.
WithCoordinates(dataset) == SelectSeq(dataset, CoordsResolve)

\* C15: raw entries with an unresolved latitude or longitude behave as if
\* dropped at load: every lookup and every search returns over the snapshot
\* what it returns over the snapshot without these entries.
C15_UnresolvedEntriesAsDropped ==
    /\ LookupDone =>
          found = GetAirportCoordinatesResult(WithCoordinates(airports), req.code)
    /\ SearchDone =>
          results = SearchAirportsResult(WithCoordinates(airports), req.query,
                                         req.limit, req.latitude, req.longitude,
                                         req.radius_nm)

\* A text search whose only record comes from the second entry, the first
\* entry carrying the same ICAO and no coordinates.
C15_Witness ==
    /\ SearchDone
    /\ ReqText # <<>>
    /\ Len(airports) = 2
    /\ ~CoordsResolve(airports[1])
    /\ CoordsResolve(airports[2])
    /\ IcaoCode(airports[1]) = IcaoCode(airports[2])
    /\ Len(results) = 1
    /\ results[1].icao = IcaoCode(airports[1])

-----------------------------------------------------------------------------
(* Proximity search                                                        *)

\* The distance from the reference point of the request to a raw entry.
EntryDistance(k) == ReqDistance(EntryRecord(airports[k]))

\* Entries with coordinates, within the radius when one is given.
InRange ==
    {k \in DOMAIN airports :
        /\ CoordsResolve(airports[k])
        /\ req.radius_nm # {} => EntryDistance(k) <= Val(req.radius_nm)}

\* The entries of InRange that are the first of their dedup key.
FirstOfKey ==
    {k \in InRange :
        \A j \in InRange :
            j < k => DedupKey(EntryRecord(airports[j])) # DedupKey(EntryRecord(airports[k]))}

ProximityOnly == SearchDone /\ ReqText = <<>> /\ ReqHasGeo /\ req.limit >= 1

\* C16: in a proximity-only search with limit >= 1 the first result is at
\* the minimum distance from the reference point among all snapshot entries
\* with coordinates (within the radius when given).
C16_FirstResultNearestOfAll ==
    (ProximityOnly /\ InRange # {}) =>
        /\ results # <<>>
        /\ ReqDistance(results[1]) = Min({EntryDistance(k) : k \in InRange})

\* C16: in a proximity-only search with limit >= 1 the first result is at
\* the minimum distance among the snapshot entries with coordinates (within
\* the radius when given) that are the first entry of their dedup key.
C16_FirstResultNearestOfKept ==
    (ProximityOnly /\ InRange # {}) =>
        /\ results # <<>>
        /\ ReqDistance(results[1]) = Min({EntryDistance(k) : k \in FirstOfKey})

\* A proximity-only search with limit 1 that returned the second entry of
\* the snapshot, nearer than the first one and under another key.
C16_Witness ==
    /\ ProximityOnly
    /\ req.limit = 1
    /\ Len(airports) = 2
    /\ FirstOfKey = {1, 2}
    /\ EntryDistance(2) < EntryDistance(1)
    /\ Len(results) = 1
    /\ Bare(results[1]) = EntryRecord(airports[2])

-----------------------------------------------------------------------------
(* Record fields                                                           *)

C18_DistanceIffReferencePoint ==
    /\ SearchDone =>
          \A i \in DOMAIN results :
              ("distance_nm" \in DOMAIN results[i]) <=> ReqHasGeo
    /\ (LookupDone /\ found # {}) => "distance_nm" \notin DOMAIN Val(found)

\* A text search given a latitude and no longitude that returned a record.
C18_Witness ==
    /\ SearchDone
    /\ ReqText # <<>>
    /\ req.latitude # {}
    /\ req.longitude = {}
    /\ results # <<>>
    /\ "distance_nm" \notin DOMAIN results[1]

\* The records the last call returned.
Returned ==
    IF req.op = "lookup" THEN found ELSE {results[i] : i \in DOMAIN results}

\* C19: every record returned by lookup-by-code or a search has its latitude
\* in [-90, 90] and its longitude in [-180, 180].
C19_CoordinatesInRange ==
    calls > 0 =>
        \A r \in Returned :
            /\ -90 <= r.latitude /\ r.latitude <= 90
            /\ -180 <= r.longitude /\ r.longitude <= 180

\* C20: the records of a search carry name, city, country and type as
\* strings, and the record of lookup-by-code carries the same strings as
\* the search record of the same entry: never null, an absent raw field being
\* the empty string.
C20_TextFieldsNeverNull ==
    /\ SearchDone =>
          \A i \in DOMAIN results :
              \A f \in {"name", "city", "country", "type"} :
                  results[i][f] \in Seq(Range(Ascii))
    /\ (LookupDone /\ found # {}) =>
          LET searched == EntryRecord(airports[Min(Eligible(req.code))])
          IN  /\ Val(found).name = {searched.name}
              /\ Val(found).city = searched.city
              /\ Val(found).country = searched.country
              /\ Val(found).type = searched.type

-----------------------------------------------------------------------------
(* Repeated calls                                                          *)

-----------------------------------------------------------------------------
(* Pure helpers                                                            *)

Returned1 == Val(ret)

\* C22: the great-circle distance is the same from A to B as from B to A,
\* in every unit, and is exactly 0 between a point and itself.
C22_DistanceSymmetricZeroOnSelf ==
    (arg.fn = "haversine" /\ ret # {}) =>
        /\ Returned1.there = Returned1.back
        /\ Returned1.nm_there = Returned1.nm_back
        /\ arg.a = arg.b => (Returned1.there = "0.0" /\ Returned1.nm_there = 0)

\* The distance in kilometres between two points that differ in latitude
\* and in longitude, measured both ways.
C22_Witness ==
    /\ arg.fn = "haversine"
    /\ arg.unit = "KM"
    /\ arg.a[1] # arg.b[1]
    /\ arg.a[2] # arg.b[2]
    /\ ret # {}
    /\ Returned1.there # "0.0"
    /\ Returned1.nm_there > 0

\* The code gets the variant with a leading K.
GetsKPrefix(c) ==
    /\ c # <<>>
    /\ c[1] # "K"
    /\ \/ Len(c) = 3
       \/ Len(c) \in 3..4 /\ \E i \in DOMAIN c : c[i] \in Range(Digits)

\* The code gets the variant without its leading K.
LosesKPrefix(c) == c # <<>> /\ c[1] = "K" /\ Len(c) \in 4..5

\* C23: candidates(c) is {c}, plus "K"+c when c is non-empty, does not start
\* with K and has length 3 or has length 3 to 4 with a digit, plus c without
\* its first character when c starts with K and has length 4 to 5; a code of
\* neither shape has the single candidate c.
C23_CandidatesExactly ==
    (arg.fn = "candidates" /\ ret # {}) =>
        LET c == arg.code
        IN  /\ \A x \in Returned1 :
                  \/ x = c
                  \/ GetsKPrefix(c) /\ x = <<"K">> \o c
                  \/ LosesKPrefix(c) /\ x = SubSeq(c, 2, Len(c))
            /\ c \in Returned1
            /\ GetsKPrefix(c) => (<<"K">> \o c) \in Returned1
            /\ LosesKPrefix(c) => SubSeq(c, 2, Len(c)) \in Returned1
            /\ (~GetsKPrefix(c) /\ ~LosesKPrefix(c)) => Returned1 = {c}

\* candidates("S5AN"): four characters with a digit, so "KS5AN" is added.
C23_Witness ==
    /\ arg.fn = "candidates"
    /\ arg.code = <<"S","5","A","N">>
    /\ ret = {{<<"S","5","A","N">>, <<"K","S","5","A","N">>}}

\* The text of v in front of its first dash (all of v when it has none).
TextBeforeFirstDash(v) ==
    LET n == CHOOSE n \in 0..Len(v) :
                 /\ \A i \in 1..n : v[i] # "-"
                 /\ n < Len(v) => v[n + 1] = "-"
    IN  SubSeq(v, 1, n)

\* The first maximal run of non-blank characters of p (empty when p is blank).
FirstWord(p) ==
    LET solid == {i \in 1..Len(p) : p[i] # " "}
    IN  IF solid = {} THEN <<>>
        ELSE LET a == CHOOSE i \in solid : \A j \in solid : i <= j
                 b == CHOOSE j \in a..Len(p) :
                          /\ \A k \in a..j : p[k] # " "
                          /\ j < Len(p) => p[j + 1] = " "
             IN  SubSeq(p, a, b)

EntryCodes(a) ==
    {Lower(c) : c \in {IcaoCode(a), IataCode(a)} \cup CandidateCodes(IcaoCode(a))}

\* The number of the first tier that matches, 6 for the fuzzy tier.
Tier(q, a) ==
    LET joined == Lower(JoinSpace(SortedStrs({IcaoCode(a), IataCode(a)}
                                     \cup CandidateCodes(IcaoCode(a)))))
        text   == joined \o <<" ">> \o Lower(StrOr(a, "name", <<>>))
                         \o <<" ">> \o Lower(StrOr(a, "city", <<>>))
                         \o <<" ">> \o Lower(StrOr(a, "country", <<>>))
        hit    == {t \in 1..6 :
                      CASE t = 1 -> q \in EntryCodes(a)
                        [] t = 2 -> StartsWith(Lower(IcaoCode(a)), q)
                        [] t = 3 -> StartsWith(Lower(IataCode(a)), q)
                        [] t = 4 -> Contains(joined, q)
                        [] t = 5 -> Contains(text, q)
                        [] t = 6 -> TRUE}
    IN  CHOOSE t \in hit : \A u \in hit : t <= u

\* The largest of the similarity ratios of q with ICAO, IATA and name.
MaxRatio(q, a) ==
    LET rs == {Ratio(q, Lower(IcaoCode(a))), Ratio(q, Lower(IataCode(a))),
               Ratio(q, Lower(StrOr(a, "name", <<>>)))}
    IN  CHOOSE r \in rs : \A o \in rs : ~FracLess(r, o)

\* C25: for a non-empty query the text score is fixed by the first tier that
\* matches, top-down: 1.0, 0.95, 0.90, 0.85, 0.65; otherwise the record is
\* excluded when the maximum fuzzy ratio is below 0.6 and else scores
\* 0.5 + (ratio - 0.6) * 0.5, a value in [0.5, 0.7].
C25_FirstMatchingTierScores ==
    (arg.fn = "score" /\ ret # {}) =>
        LET t == Tier(arg.q, arg.airport)
            r == MaxRatio(arg.q, arg.airport)
            fixed == <<[n |-> 100, d |-> 100], [n |-> 95, d |-> 100],
                       [n |-> 90, d |-> 100], [n |-> 85, d |-> 100],
                       [n |-> 65, d |-> 100]>>
        IN  /\ t <= 5 => Returned1 = {fixed[t]}
            /\ (t = 6 /\ 10 * r.n < 6 * r.d) => Returned1 = {}
            /\ (t = 6 /\ 10 * r.n >= 6 * r.d) =>
                  /\ Cardinality(Returned1) = 1
                  /\ \A s \in Returned1 :
                        \* s = 1/2 + (r - 6/10) / 2
                        /\ 20 * r.d * s.n = (4 * r.d + 10 * r.n) * s.d
                        /\ 2 * s.n >= s.d
                        /\ 10 * s.n <= 7 * s.d

\* The query "kinxyz" against the entry named "Kino": no tier matches, the
\* ratio is exactly 0.6 and the score is 0.5.
C25_Witness ==
    /\ arg.fn = "score"
    /\ arg.q = <<"k","i","n","x","y","z">>
    /\ arg.airport = [name |-> <<"K","i","n","o">>]
    /\ ret # {}
    /\ \E s \in Returned1 : 2 * s.n = s.d

\* The entry passes the radius filter of the request.
WithinRadius(k) ==
    ~(/\ ReqHasGeo
      /\ req.radius_nm # {}
      /\ EntryDistance(k) > Val(req.radius_nm))

\* The entries that reach the deduplication step.
ReachesDedup == {k \in DOMAIN airports : CoordsResolve(airports[k]) /\ WithinRadius(k)}

EntryKey(k) == DedupKey(EntryRecord(airports[k]))

\* The entries that claim their dedup key: the first of ReachesDedup in
\* snapshot order with that key.
ClaimsKey ==
    {k \in ReachesDedup : \A j \in ReachesDedup : j < k => EntryKey(j) # EntryKey(k)}

\* The entry is not excluded by the text rule of the request.
PassesText(k) == ReqText = <<>> \/ TextScore(ReqText, airports[k]) # {}

\* C26: the per-record steps run in the order radius filter, deduplication,
\* text exclusion: the key is claimed by the first record in snapshot order
\* with coordinates and within the radius (a record excluded by the radius
\* never claims it), and every returned record is the claimer of its key, so
\* a claimer excluded by the text rule leaves its key without a record even
\* when a later record with that key passes all filters.
C26_RadiusThenDedupThenText ==
    (SearchDone /\ (ReqText # <<>> \/ ReqHasGeo)) =>
        /\ \A i \in DOMAIN results :
              \E k \in ClaimsKey :
                  /\ PassesText(k)
                  /\ EntryKey(k) = ResultKey(results[i])
                  /\ Bare(results[i]) = EntryRecord(airports[k])
        /\ req.limit >= Len(airports) =>
              {ResultKey(results[i]) : i \in DOMAIN results}
                  = {EntryKey(k) : k \in {c \in ClaimsKey : PassesText(c)}}

\* A text search on two entries of one key: the first claims the key and is
\* excluded by the text rule, the second matches the query and is not
\* returned.
C26_Witness ==
    /\ SearchDone
    /\ req.limit = 2
    /\ Len(airports) = 2
    /\ ReachesDedup = {1, 2}
    /\ EntryKey(1) = EntryKey(2)
    /\ ~PassesText(1)
    /\ PassesText(2)
    /\ results = <<>>

\* A search with a radius on two entries of one key: the first lies outside
\* the radius, the second claims the key and is returned.
C26_WitnessRadius ==
    /\ SearchDone
    /\ ReqHasGeo
    /\ Len(airports) = 2
    /\ CoordsResolve(airports[1])
    /\ ~WithinRadius(1)
    /\ ClaimsKey = {2}
    /\ EntryKey(1) = EntryKey(2)
    /\ Len(results) = 1
    /\ Bare(results[1]) = EntryRecord(airports[2])

\* The numbers the members k1 and k2 of a raw entry hold.
Numbers(a, k1, k2) == (Get(a, k1) \cup Get(a, k2)) \ {NonNumeric}

\* The members k1 and k2 that are present hold numbers, and one is present.
HoldNumbers(a, k1, k2) ==
    /\ Numbers(a, k1, k2) # {}
    /\ NonNumeric \notin Get(a, k1) \cup Get(a, k2)

\* C27: a raw entry loses a coordinate only when the value is missing or
\* non-numeric: a flat entry whose lat/latitude and lon/longitude members
\* hold numbers, 0 included, has both coordinates resolved, each to a number
\* the entry holds.
C27_NumericFieldsResolve ==
    (/\ arg.fn = "extract"
     /\ ret # {}
     /\ "geometry" \notin DOMAIN arg.airport
     /\ HoldNumbers(arg.airport, "lat", "latitude")
     /\ HoldNumbers(arg.airport, "lon", "longitude")) =>
        /\ Returned1[1] # {}
        /\ Returned1[2] # {}
        /\ Returned1[1] \subseteq Numbers(arg.airport, "lat", "latitude")
        /\ Returned1[2] \subseteq Numbers(arg.airport, "lon", "longitude")

\* The entry {"lat": 0, "lon": 11} comes out without a latitude.
C27_ZeroLatitudeLost ==
    /\ arg.fn = "extract"
    /\ arg.airport = [lat |-> 0, lon |-> 11]
    /\ ret = {<<{}, {11}>>}

\* What the direct members of the entry give.
DirectFields(a) ==
    <<ToFloat(NumOr(Get(a, "lat"), Get(a, "latitude"))),
      ToFloat(NumOr(Get(a, "lon"), Get(a, "longitude")))>>

\* The geometry pair [x, y] of the entry gives both coordinates.
GeometryYieldsBoth(a) ==
    /\ "geometry" \in DOMAIN a
    /\ "coordinates" \in DOMAIN a["geometry"]
    /\ Len(a["geometry"]["coordinates"]) = 2
    /\ \A i \in 1..2 : a["geometry"]["coordinates"][i] # NonNumeric

\* C28: extraction tries the geometry pair first and the direct members
\* second: geometry.coordinates = [x, y] gives longitude x and latitude y,
\* and the direct lat/latitude and lon/longitude members are used whenever
\* the geometry pair does not yield both coordinates.
C28_GeometryFirstThenDirect ==
    (arg.fn = "extract" /\ ret # {}) =>
        IF GeometryYieldsBoth(arg.airport)
        THEN Returned1 = <<{arg.airport["geometry"]["coordinates"][2]},
                           {arg.airport["geometry"]["coordinates"][1]}>>
        ELSE Returned1 = DirectFields(arg.airport)

\* An entry with the pair [non-numeric, 11] and the direct members lat 11,
\* lon 11 comes out without a longitude.
C28_NoFallBack ==
    /\ arg.fn = "extract"
    /\ arg.airport = [geometry |-> [coordinates |-> <<NonNumeric, 11>>],
                      lat |-> 11, lon |-> 11]
    /\ ret = {<<{11}, {}>>}

-----------------------------------------------------------------------------
(* Concurrent loads and scans                                              *)

\* C29: under every interleaving of concurrent load attempts, each read
\* succeeding or failing on its own, whenever the loaded flag is true the
\* held snapshot is the data of a successful read: the empty fallback of a
\* failed attempt never replaces a completed snapshot.
C29_LoadedSnapshotIsReadData == loaded => airports = source.data

\* The flag is set over a non-empty source and the snapshot is empty, after
\* one thread's read succeeded and another's failed.
C29_FallbackOverSnapshot ==
    /\ loaded
    /\ source.data # <<>>
    /\ airports = <<>>
    /\ \E t \in Threads : data[t] = source.data

\* The entry is one the lookup of the request returns.
Returnable(airport) ==
    /\ CodeMatches(airport, CandidateCodes(NormalizeAirportCode(req.code)))
    /\ CoordsResolve(airport)

\* C30: the snapshot is replaced as a whole and never changed in place, so a
\* query running next to a load scans one snapshot value from start to end:
\* the entries it has visited are the leading entries of the empty list or of
\* one complete loaded list, and it ends at the end of that list or at the
\* entry it returns.
C30_ScanOneSnapshot ==
    \A t \in Threads :
        pc[t] \in {"loop", "done"} =>
            \E L \in {<<>>, source.data} :
                /\ Len(view[t]) <= Len(L)
                /\ \A i \in 1..Len(view[t]) : view[t][i] = L[i]
                /\ pc[t] = "done" =>
                      \/ view[t] = L
                      \/ view[t] # <<>> /\ Returnable(view[t][Len(view[t])])

\* A thread has visited the first of two entries of the loaded list while
\* another thread's fallback has replaced the snapshot by the empty list.
C30_Witness ==
    \E t \in Threads :
        /\ pc[t] = "loop"
        /\ Len(source.data) = 2
        /\ held[t] = source.data
        /\ view[t] = <<source.data[1]>>
        /\ airports = <<>>
        /\ loaded

=============================================================================
